---- MODULE Spec2Model ----
(***************************************************************************)
(* Resilient harvest pipeline of the Newegg scraper: the Persistence       *)
(* Reconciler (duck_db/database.py), the Retry Executor and the Pagination *)
(* Harvest Controller (web_scraper/scraper.py), the Field Extractor        *)
(* (web_scraper/data_parser.py) and the orchestration (main.py).           *)
(***************************************************************************)
EXTENDS Integers, Sequences, FiniteSets, TLC

(***************************************************************************)
(* Bounds of the model.                                                    *)
(***************************************************************************)
\* number of Reconciler calls made in one behaviour of SpecDB
MaxCalls == 3
\* number of Retry Executor invocations on one scraper in one behaviour of SpecRetry
MaxInvocations == 3
\* review pages whose content the harvest model keeps exactly; later pages are
\* harvested and clicked through, but no longer counted or stored
MaxPage == 2
\* length, in tokens, of the class strings the rating icon is given in SpecParse
MaxClassLen == 3

(***************************************************************************)
(* Configuration (web_scraper/scraper.py, web_scraper/config.py).          *)
(***************************************************************************)
RETRY_COUNT == 3

(***************************************************************************)
(* Values.                                                                 *)
(***************************************************************************)
\* Python's None where an id is expected; real ids start at COALESCE(MAX(id),0)+1 >= 1
None == 0

Urls == {"u1", "u2"}

\* the keys upsert_product reads from product_info on its two paths
UpdateKeys == {"price", "ratings", "reviews_count"}
InsertKeys == {"title", "brand", "price", "ratings", "reviews_count", "description"}

\* the keys upsert_review reads from review_info
ReviewLookupKeys == {"reviewer_name", "date_of_review"}
ReviewInsertKeys == {"reviewer_name", "rating", "review_title", "review_body",
                     "date_of_review", "verified_buyer"}

Max(S) == CHOOSE x \in S : \A y \in S : y <= x

(***************************************************************************)
(* Rendered text. A text is a sequence of one-character strings, so that   *)
(* the regular-expression searches of the parser are computed, not assumed.*)
(***************************************************************************)
Digits == {"0", "1", "2", "3", "4", "5", "6", "7", "8", "9"}

DigitValue(c) == CASE c = "0" -> 0 [] c = "1" -> 1 [] c = "2" -> 2 [] c = "3" -> 3
                   [] c = "4" -> 4 [] c = "5" -> 5 [] c = "6" -> 6 [] c = "7" -> 7
                   [] c = "8" -> 8 [] c = "9" -> 9

\* int(s) of a string of decimal digits
RECURSIVE ParseInt(_)
ParseInt(s) == IF s = <<>> THEN 0
               ELSE 10 * ParseInt(SubSeq(s, 1, Len(s) - 1)) + DigitValue(s[Len(s)])

\* the longest run of digits of text that starts at position i (regex \d+ is greedy)
RECURSIVE DigitRun(_, _)
DigitRun(text, i) == IF i > Len(text) \/ text[i] \notin Digits THEN <<>>
                     ELSE <<text[i]>> \o DigitRun(text, i + 1)

\* re.search(r'\d+', text): the leftmost match, or <<>> for no match
SearchDigits(text) ==
    LET starts == {i \in 1..Len(text) : text[i] \in Digits}
    IN  IF starts = {} THEN <<>>
        ELSE DigitRun(text, CHOOSE i \in starts : \A j \in starts : i <= j)

(***************************************************************************)
(* State.                                                                  *)
(***************************************************************************)
VARIABLES
    products,   \* rows of table products
    reviews,    \* rows of table reviews
    ncalls,     \* Reconciler calls made so far; also the store's current_timestamp
    last,       \* the last Reconciler call: its operation, arguments and outcome
    initialized,\* the scraper's _initialized flag
    rx,         \* the running invocation of _execute_with_retries
    invocations,\* the action names of the invocations of _execute_with_retries so far
    hv,         \* the running call of extract_reviews
    sess,       \* the scrape_page sessions main has gathered, by session
    main        \* where main() is: idle, gathering, closed or raised

dbvars == <<products, reviews, ncalls, last>>
rxvars == <<initialized, rx, invocations>>
vars == <<products, reviews, ncalls, last, initialized, rx, invocations, hv, sess, main>>

(***************************************************************************)
(* The Persistent Store: tables with their declared constraints.           *)
(***************************************************************************)
\* products: id INTEGER PRIMARY KEY, url VARCHAR UNIQUE NOT NULL
ProductInsertAllowed(prods, row) ==
    /\ \A p \in prods : p.id # row.id
    /\ \A p \in prods : p.url # row.url

\* reviews as it would be without the foreign key on product_id
ReviewInsertAllowedUnreferenced(revs, prods, row) ==
    /\ \A r \in revs : r.id # row.id
    /\ row.product_id # None =>
          \A r \in revs : ~ /\ r.product_id = row.product_id
                            /\ r.reviewer_name = row.reviewer_name
                            /\ r.date_of_review = row.date_of_review

\* reviews: id PRIMARY KEY, FOREIGN KEY (product_id) REFERENCES products(id),
\* UNIQUE (product_id, reviewer_name, date_of_review); a NULL product_id passes both
ReviewInsertAllowed(revs, prods, row) ==
    /\ \A r \in revs : r.id # row.id
    /\ row.product_id # None => \E p \in prods : p.id = row.product_id
    /\ row.product_id # None =>
          \A r \in revs : ~ /\ r.product_id = row.product_id
                            /\ r.reviewer_name = row.reviewer_name
                            /\ r.date_of_review = row.date_of_review

\* the constraints of products that an insert of row would break
ProductConflicts(prods, row) ==
    {c \in {"products.id", "products.url"} :
        \/ c = "products.id" /\ \E p \in prods : p.id = row.id
        \/ c = "products.url" /\ \E p \in prods : p.url = row.url}

\* the constraints of reviews that an insert of row would break
ReviewConflicts(revs, prods, row) ==
    {c \in {"reviews.id", "reviews.product_id", "reviews.key"} :
        \/ c = "reviews.id" /\ \E r \in revs : r.id = row.id
        \/ c = "reviews.product_id" /\ row.product_id # None
                                     /\ \A p \in prods : p.id # row.product_id
        \/ c = "reviews.key" /\ row.product_id # None
                              /\ \E r \in revs : /\ r.product_id = row.product_id
                                                  /\ r.reviewer_name = row.reviewer_name
                                                  /\ r.date_of_review = row.date_of_review}

\* the next id as it would be if the maximum had been read on the empty table
NextIdStale(rows) == 1

\* SELECT COALESCE(MAX(id), 0) + 1 FROM <table>
NextId(rows) == IF rows = {} THEN 1 ELSE Max({r.id : r \in rows}) + 1

\* the UPDATE as it would be if it rewrote every column from the record
UpdateProductRewriting(prods, info, url, now) ==
    {IF p.url = url
        THEN [p EXCEPT !.price = info["price"], !.ratings = info["ratings"],
                       !.reviews_count = info["reviews_count"], !.scraped_at = now,
                       !.title = IF "title" \in DOMAIN info THEN info["title"] ELSE @]
        ELSE p : p \in prods}

\* upsert_product as it would be if it inserted without looking the url up
upsert_product_unlooked(prods, info, url, now) ==
    IF ~ (InsertKeys \subseteq DOMAIN info)
    THEN [products |-> prods, ret |-> None, rejected |-> {}]
    ELSE LET row == [id |-> NextId(prods), url |-> url, title |-> info["title"],
                     brand |-> info["brand"], price |-> info["price"],
                     ratings |-> info["ratings"],
                     reviews_count |-> info["reviews_count"],
                     description |-> info["description"], scraped_at |-> now]
         IN  IF ProductInsertAllowed(prods, row)
             THEN [products |-> prods \cup {row}, ret |-> row.id, rejected |-> {}]
             ELSE [products |-> prods, ret |-> None,
                   rejected |-> ProductConflicts(prods, row)]

(***************************************************************************)
(* Database.upsert_product(product_info, url): the new table, the returned *)
(* id (None after a caught exception) and the constraints an insert broke. *)
(***************************************************************************)
UpdateProduct(prods, info, url, now) ==
    {IF p.url = url
        THEN [p EXCEPT !.price = info["price"], !.ratings = info["ratings"],
                       !.reviews_count = info["reviews_count"], !.scraped_at = now]
        ELSE p : p \in prods}

\* upsert_product as it would be if the lookup took any stored row for the url's
upsert_product_any_row(prods, info, url, now) ==
    IF prods = {} THEN upsert_product_unlooked(prods, info, url, now)
    ELSE IF ~ (UpdateKeys \subseteq DOMAIN info) \/ "title" \notin DOMAIN info
    THEN [products |-> prods, ret |-> None, rejected |-> {}]
    ELSE [products |-> UpdateProduct(prods, info, url, now),
          ret |-> (CHOOSE p \in prods : \A q \in prods : p.id <= q.id).id,
          rejected |-> {}]

upsert_product(prods, info, url, now) ==
    LET existing == {p \in prods : p.url = url}
    IN  IF existing # {}
        THEN IF ~ (UpdateKeys \subseteq DOMAIN info)
             THEN [products |-> prods, ret |-> None, rejected |-> {}]   \* KeyError building update_data
             ELSE IF "title" \notin DOMAIN info
             THEN [products |-> UpdateProduct(prods, info, url, now),
                   ret |-> None, rejected |-> {}]   \* KeyError in log.info, after commit
             ELSE [products |-> UpdateProduct(prods, info, url, now),
                   ret |-> (CHOOSE p \in existing : TRUE).id, rejected |-> {}]
        ELSE LET next_id == NextId(prods)
             IN  IF ~ (InsertKeys \subseteq DOMAIN info)
                 THEN [products |-> prods, ret |-> None, rejected |-> {}]
                                                          \* KeyError building product_data
                 ELSE LET row == [id |-> next_id, url |-> url, title |-> info["title"],
                                  brand |-> info["brand"], price |-> info["price"],
                                  ratings |-> info["ratings"],
                                  reviews_count |-> info["reviews_count"],
                                  description |-> info["description"],
                                  scraped_at |-> now]
                      IN  IF ProductInsertAllowed(prods, row)
                          THEN [products |-> prods \cup {row}, ret |-> next_id,
                                rejected |-> {}]
                          ELSE [products |-> prods, ret |-> None,  \* constraint error
                                rejected |-> ProductConflicts(prods, row)]

\* upsert_review as it would be if a stored review were refreshed on a repeat scrape
upsert_review_refreshing(revs, prods, info, product_id, accepts) ==
    IF product_id = None \/ ~ (ReviewInsertKeys \subseteq DOMAIN info)
    THEN [reviews |-> revs, raised |-> FALSE, rejected |-> {}]
    ELSE LET same(r) == /\ r.product_id = product_id
                        /\ r.reviewer_name = info["reviewer_name"]
                        /\ r.date_of_review = info["date_of_review"]
             row == [id |-> NextId(revs), product_id |-> product_id,
                     reviewer_name |-> info["reviewer_name"], rating |-> info["rating"],
                     review_title |-> info["review_title"],
                     review_body |-> info["review_body"],
                     date_of_review |-> info["date_of_review"],
                     verified_buyer |-> info["verified_buyer"]]
         IN  IF \E r \in revs : same(r)
             THEN [reviews |-> {IF same(r) THEN [row EXCEPT !.id = r.id] ELSE r : r \in revs},
                   raised |-> FALSE, rejected |-> {}]
             ELSE IF ReviewInsertAllowed(revs, prods, row)
             THEN [reviews |-> revs \cup {row}, raised |-> FALSE, rejected |-> {}]
             ELSE [reviews |-> revs, raised |-> FALSE, rejected |-> {}]

\* upsert_review as it would be without the guard on an absent product_id
upsert_review_unguarded(revs, prods, info, product_id, accepts) ==
    IF ~ (ReviewInsertKeys \subseteq DOMAIN info)
    THEN [reviews |-> revs, raised |-> FALSE, rejected |-> {}]
    ELSE LET row == [id |-> NextId(revs), product_id |-> product_id,
                     reviewer_name |-> info["reviewer_name"], rating |-> info["rating"],
                     review_title |-> info["review_title"],
                     review_body |-> info["review_body"],
                     date_of_review |-> info["date_of_review"],
                     verified_buyer |-> info["verified_buyer"]]
         IN  IF ReviewInsertAllowed(revs, prods, row)
             THEN [reviews |-> revs \cup {row}, raised |-> FALSE, rejected |-> {}]
             ELSE [reviews |-> revs, raised |-> FALSE, rejected |-> {}]

(***************************************************************************)
(* Database.upsert_review(review_info, product_id): the new table,         *)
(* whether an exception left the call and the constraints an insert broke. *)
(* accepts tells whether the store executes the statements of the call.    *)
(***************************************************************************)
upsert_review(revs, prods, info, product_id, accepts) ==
    IF product_id = None
    THEN [reviews |-> revs, raised |-> FALSE, rejected |-> {}]   \* guard: skip with a warning
    ELSE IF ~ accepts
    THEN [reviews |-> revs, raised |-> FALSE, rejected |-> {}]   \* the store raises, caught
    ELSE IF ~ (ReviewLookupKeys \subseteq DOMAIN info)
    THEN [reviews |-> revs, raised |-> FALSE, rejected |-> {}]   \* KeyError, caught
    ELSE LET existing == {r \in revs : /\ r.product_id = product_id
                                       /\ r.reviewer_name = info["reviewer_name"]
                                       /\ r.date_of_review = info["date_of_review"]}
         IN  IF existing # {}
             THEN [reviews |-> revs, raised |-> FALSE, rejected |-> {}]   \* already exists, skipping
             ELSE IF ~ (ReviewInsertKeys \subseteq DOMAIN info)
             THEN [reviews |-> revs, raised |-> FALSE, rejected |-> {}]   \* KeyError, caught
             ELSE LET row == [id |-> NextId(revs), product_id |-> product_id,
                              reviewer_name |-> info["reviewer_name"],
                              rating |-> info["rating"],
                              review_title |-> info["review_title"],
                              review_body |-> info["review_body"],
                              date_of_review |-> info["date_of_review"],
                              verified_buyer |-> info["verified_buyer"]]
                  IN  IF ReviewInsertAllowed(revs, prods, row)
                      THEN [reviews |-> revs \cup {row}, raised |-> FALSE, rejected |-> {}]
                      ELSE [reviews |-> revs, raised |-> FALSE,   \* constraint error, caught
                            rejected |-> ReviewConflicts(revs, prods, row)]

(***************************************************************************)
(* The rendered product page, as the Render/Automation Collaborator        *)
(* answers each read of the Field Extractor.                               *)
(***************************************************************************)
NoAttribute == "NO_ATTRIBUTE"     \* get_attribute returning None

ProductReads == <<"title", "brand", "price", "ratings", "reviews_count", "description">>

FieldNames == {ProductReads[i] : i \in 1..Len(ProductReads)}

\* what each read answers when it does not raise
PageValues ==
    [title : {"t1", "t2"}, brand : {"b1"}, price : {"p1", "p2"},
     ratings : {"r1", NoAttribute},
     reviews_count : {<<"(", "3", ")">>, <<"n", "a">>},
     description : {"d1"}]

\* a page: the answers, and the set of reads that raise
ProductPages == [vals : PageValues, fails : SUBSET FieldNames]

(***************************************************************************)
(* DataParser.extract_product_info(page): one try block around the reads,  *)
(* taken in source order; the first read that raises ends the block and    *)
(* the fields stored so far are returned.                                  *)
(***************************************************************************)
\* the value the parser stores for a field whose read answered a
FieldValue(field, a) ==
    CASE field = "ratings"       -> (IF a = NoAttribute THEN "No rating text" ELSE a)
      [] field = "reviews_count" -> (IF SearchDigits(a) = <<>> THEN 0
                                     ELSE ParseInt(SearchDigits(a)))
      [] OTHER                   -> a

\* number of reads that complete before the first one that raises
RECURSIVE ReadsDone(_, _)
ReadsDone(page, i) ==
    IF i > Len(ProductReads) \/ ProductReads[i] \in page.fails THEN i - 1
    ELSE ReadsDone(page, i + 1)

extract_product_info(page) ==
    LET n == ReadsDone(page, 1)
        got == {ProductReads[i] : i \in 1..n}
    IN  IF n = Len(ProductReads)
        THEN [f \in got \cup {"scraped_at"} |->
                 IF f = "scraped_at" THEN "now" ELSE FieldValue(f, page.vals[f])]
        ELSE [f \in got |-> FieldValue(f, page.vals[f])]

\* scrape_page's test as it would be if only the record's existence were tested
HasTitleUnchecked(info) == TRUE

\* product_info and product_info.get('title')
HasTitle(info) == "title" \in DOMAIN info /\ info["title"] # ""

\* the records the orchestration hands to upsert_product
ProductInfos == {info \in {extract_product_info(pg) : pg \in ProductPages} : HasTitle(info)}

(***************************************************************************)
(* Review records, as _parse_review returns them, and two records that     *)
(* lack fields.                                                            *)
(***************************************************************************)
ReviewerNames == {"n1", "n2"}
ReviewDates == {"d1"}
ReviewTexts == {"x1", "x2"}

FullReviewInfos ==
    {[reviewer_name |-> n, rating |-> 5, review_title |-> x, review_body |-> x,
      date_of_review |-> d, verified_buyer |-> "Yes"] :
        n \in ReviewerNames, d \in ReviewDates, x \in ReviewTexts}

PartialReviewInfos == {[reviewer_name |-> "n1"], [reviewer_name |-> "n1", date_of_review |-> "d1"]}

ReviewInfos == FullReviewInfos \cup PartialReviewInfos

\* the ids a caller may hold: None, ids of rows, and an id no row has
ProductIds == {None} \cup (1..(Cardinality(Urls) + 1))

(***************************************************************************)
(* ResilientNeweggScraper._execute_with_retries(action, action_name).      *)
(* An invocation is a record: pc, the loop variable attempt, the number of *)
(* times the action was invoked, the number of retry delays waited, the    *)
(* returned value, and the outcomes of the attempts made.                  *)
(***************************************************************************)
\* what one await of the action can do: return its result, raise
\* PlaywrightTimeoutError, or raise another Exception
Outcomes == {"result", "timeout", "error"}

\* how the collaborator answers one request: it completes, times out or fails
StepOutcomes == {"ok", "timeout", "error"}

\* for attempt in range(RETRY_COUNT)
AttemptsOffByOne == RETRY_COUNT + 1
Attempts == RETRY_COUNT

\* steps lists the requests the wrapped action has made of the collaborator,
\* where the action is modelled by its steps (SpecNavigate)
NotInvoked == [pc |-> "idle", attempt |-> 0, calls |-> 0, sleeps |-> 0,
               result |-> "None", outs |-> <<>>, steps |-> <<>>]

\* the loop head: another pass, or the fall-through to "return None"
LoopHead(st) == IF st.attempt < Attempts THEN [st EXCEPT !.pc = "attempt"]
                ELSE [st EXCEPT !.pc = "returned", !.result = "None"]

\* one pass of the loop body as it would be if every exception were retried
TryActionRetryingAll(st, outcome) ==
    LET called == [st EXCEPT !.calls = @ + 1, !.outs = Append(@, outcome)]
    IN  IF outcome = "result"
        THEN [called EXCEPT !.pc = "returned", !.result = "result"]
        ELSE [called EXCEPT !.pc = "sleeping"]

\* one pass of the loop body: return await action(), with its two handlers
TryAction(st, outcome) ==
    LET called == [st EXCEPT !.calls = @ + 1, !.outs = Append(@, outcome)]
    IN  CASE outcome = "result"  -> [called EXCEPT !.pc = "returned", !.result = "result"]
          [] outcome = "timeout" -> [called EXCEPT !.pc = "sleeping"]
          [] outcome = "error"   -> [called EXCEPT !.pc = "returned", !.result = "None"]

\* await asyncio.sleep(RETRY_DELAY_SECONDS) completes; the loop variable advances
AfterSleep(st) == LoopHead([st EXCEPT !.sleeps = @ + 1, !.attempt = @ + 1])

NoCall == [op |-> "none", url |-> "", info |-> <<>>, product_id |-> None,
           ret |-> None, raised |-> FALSE]

StoreInit ==
    /\ products = {}
    /\ reviews = {}
    /\ ncalls = 0
    /\ last = NoCall

\* the actions the scraper wraps: navigate returns True, the click returns None
ActionNames == {"Navigate to page", "Click Reviews Tab"}

\* extract_reviews not called
NotHarvesting == [pc |-> "idle", current_page |-> 1, reviews_list |-> <<>>,
                  items |-> <<>>, served |-> <<>>, clicks |-> 0, overlays |-> 0,
                  beyond |-> FALSE, end |-> "", result |-> <<>>, container |-> <<>>]

HarvestIdle == hv = NotHarvesting

\* main not run
NoSessions == sess = <<>> /\ main = "idle"

RetryIdle ==
    /\ initialized = FALSE
    /\ rx = NotInvoked
    /\ invocations = <<>>

(***************************************************************************)
(* SpecRetry: at most MaxInvocations invocations of the Retry Executor on  *)
(* one scraper, against a collaborator free to answer every await.         *)
(***************************************************************************)
\* entry with the session open: _initialize returns at once
Invoke ==
    /\ rx.pc \in {"idle", "returned", "raised"}
    /\ Len(invocations) < MaxInvocations
    /\ initialized
    /\ rx' = LoopHead(NotInvoked)
    /\ \E name \in ActionNames : invocations' = Append(invocations, name)
    /\ UNCHANGED <<initialized, dbvars, hv, sess, main>>

\* entry with the session unopened: _initialize opens it, outside any try block
InvokeInitializing ==
    /\ rx.pc \in {"idle", "returned", "raised"}
    /\ Len(invocations) < MaxInvocations
    /\ ~ initialized
    /\ \E opened \in BOOLEAN :
          IF opened
          THEN initialized' = TRUE /\ rx' = LoopHead(NotInvoked)
          ELSE initialized' = FALSE /\ rx' = [NotInvoked EXCEPT !.pc = "raised"]
    /\ \E name \in ActionNames : invocations' = Append(invocations, name)
    /\ UNCHANGED <<dbvars, hv, sess, main>>

Attempt ==
    /\ rx.pc = "attempt"
    /\ \E outcome \in Outcomes : rx' = TryAction(rx, outcome)
    /\ UNCHANGED <<initialized, invocations, dbvars, hv, sess, main>>

Sleep ==
    /\ rx.pc = "sleeping"
    /\ rx' = AfterSleep(rx)
    /\ UNCHANGED <<initialized, invocations, dbvars, hv, sess, main>>

InitRetry == StoreInit /\ RetryIdle /\ HarvestIdle /\ NoSessions

NextRetry == Invoke \/ InvokeInitializing \/ Attempt \/ Sleep

SpecRetry == InitRetry /\ [][NextRetry]_vars

(***************************************************************************)
(* Review items, as the collaborator answers the reads of _parse_review.   *)
(* rating_class is the class attribute of the rating icon as a text of     *)
(* tokens (<<>> for None or the empty string); fails says that one of the  *)
(* reads of the item raises.                                               *)
(***************************************************************************)
\* re.search(r'rating-(\d+)', rating_class), then int(match.group(1)); 0 for no match
RatingOf(cls) ==
    LET hits == {i \in 1..Len(cls) : cls[i] = "rating-" /\ DigitRun(cls, i + 1) # <<>>}
    IN  IF hits = {} THEN 0
        ELSE ParseInt(DigitRun(cls, 1 + CHOOSE i \in hits : \A j \in hits : i <= j))

NoReview == [none |-> TRUE]     \* review_data = None

\* ResilientNeweggScraper._parse_review(item)
parse_review(item) ==
    IF item.fails THEN NoReview
    ELSE [reviewer_name |-> item.reviewer_name, rating |-> RatingOf(item.rating_class),
          review_title |-> item.review_title, review_body |-> item.review_body,
          date_of_review |-> item.date_of_review,
          verified_buyer |-> IF item.badge THEN "Yes" ELSE "No"]

ItemA == [reviewer_name |-> "n1", rating_class |-> <<"rating", " ", "rating-", "5">>,
          review_title |-> "x1", review_body |-> "x1", date_of_review |-> "d1",
          badge |-> TRUE, fails |-> FALSE]
ItemB == [reviewer_name |-> "n2", rating_class |-> <<"rating", " ", "rating-">>,
          review_title |-> "x2", review_body |-> "x2", date_of_review |-> "d1",
          badge |-> FALSE, fails |-> FALSE]
ItemBad == [ItemA EXCEPT !.fails = TRUE]

\* what page.locator(review_item).all() can answer for one page
PageListings == {<<>>, <<ItemA>>, <<ItemBad>>, <<ItemB, ItemBad, ItemA>>}

\* the page's batch as it would be if one failed item discarded the whole page
SurvivorsAllOrNothing(items) ==
    IF \E i \in 1..Len(items) : parse_review(items[i]) = NoReview THEN <<>>
    ELSE [i \in 1..Len(items) |-> parse_review(items[i])]

\* [review for review in parsed_reviews_on_page if review], in the order of the
\* items: asyncio.gather returns its results in the order of its arguments
RECURSIVE Survivors(_)
Survivors(items) ==
    IF items = <<>> THEN <<>>
    ELSE (IF parse_review(Head(items)) = NoReview THEN <<>>
          ELSE <<parse_review(Head(items))>>) \o Survivors(Tail(items))

(***************************************************************************)
(* ResilientNeweggScraper.extract_reviews(). A call is a record: pc,       *)
(* current_page, reviews_list, the items listed on the current page, the   *)
(* listings served so far (one per page read), the pagination and overlay  *)
(* clicks made, why the loop ended, and the returned list. Pages up to     *)
(* MaxPage are kept exactly; once the loop clicks past page MaxPage,       *)
(* beyond is set and the counters and lists stay as they were.             *)
(***************************************************************************)
\* the way out as it would be if the handler of the try block raised again
ReturnOrRaise(st, why) ==
    IF why = "error" THEN [st EXCEPT !.pc = "raised", !.end = why, !.items = <<>>]
    ELSE [st EXCEPT !.pc = "returned", !.end = why, !.result = st.reviews_list,
                    !.items = <<>>]

\* leaving the while loop or the try block: return reviews_list
Return(st, why) == [st EXCEPT !.pc = "returned", !.end = why, !.result = st.reviews_list,
                              !.items = <<>>]

\* await page.wait_for_selector(container): raises on a timeout or another
\* failure, else current_page = 1; container lists the answers to the waits made
AfterContainer(st, answer) ==
    LET waited == [st EXCEPT !.container = Append(@, answer)]
    IN  IF answer = "ok" THEN [waited EXCEPT !.pc = "list", !.current_page = 1]
        ELSE Return(waited, "error")

\* the listing as it would be handled if an empty page discarded the harvest
OnListingDiscarding(st, listing) ==
    IF listing = <<>>
    THEN [Return(st, "empty") EXCEPT !.result = <<>>,
                                     !.served = IF st.beyond THEN @ ELSE Append(@, listing)]
    ELSE [st EXCEPT !.pc = "parse", !.items = listing,
                    !.served = IF st.beyond THEN @ ELSE Append(@, listing)]

\* review_items = await ...all(); if not review_items: break
OnListing(st, listing) ==
    LET seen == [st EXCEPT !.served = IF st.beyond THEN @ ELSE Append(@, listing)]
    IN  IF listing = <<>> THEN Return(seen, "empty")
        ELSE [seen EXCEPT !.pc = "parse", !.items = listing]

\* parsed = await asyncio.gather(...); reviews_list.extend(survivors)
AfterGather(st) ==
    [st EXCEPT !.pc = "next", !.items = <<>>,
               !.reviews_list = IF st.beyond THEN @ ELSE @ \o Survivors(st.items)]

\* if await next_page_locator.is_visible(): ... else: break
OnVisible(st, visible) ==
    IF visible THEN [st EXCEPT !.pc = "overlay"] ELSE Return(st, "last")

\* the step as it would be if the control were clicked with no click on the body
AfterOverlayClickOmitted(st) == [st EXCEPT !.pc = "click"]

\* await self.page.locator('body').click(position=...)
AfterOverlayClick(st) ==
    [st EXCEPT !.pc = "click", !.overlays = IF st.beyond THEN @ ELSE @ + 1]

\* await next_page_locator.click(); current_page = next_page_num
AfterNextClick(st) ==
    IF st.current_page < MaxPage /\ ~ st.beyond
    THEN [st EXCEPT !.pc = "list", !.clicks = @ + 1, !.current_page = @ + 1]
    ELSE [st EXCEPT !.pc = "list", !.beyond = TRUE]

(***************************************************************************)
(* SpecHarvest: one call of extract_reviews on a scraper whose session     *)
(* navigate_to_page has opened, against a collaborator free to answer      *)
(* every await. The reviews-tab click runs in the Retry Executor (Attempt, *)
(* Sleep).                                                                 *)
(***************************************************************************)
\* await self._initialize() returns at once; the tab click enters the Retry Executor
HarvestEnter ==
    /\ hv.pc = "idle"
    /\ initialized
    /\ hv' = [hv EXCEPT !.pc = "tab"]
    /\ rx' = LoopHead(NotInvoked)
    /\ invocations' = Append(invocations, "Click Reviews Tab")
    /\ UNCHANGED <<initialized, dbvars, sess, main>>

\* the Retry Executor has returned; its result is not looked at
HarvestTabReturned ==
    /\ hv.pc = "tab"
    /\ rx.pc = "returned"
    /\ hv' = [hv EXCEPT !.pc = "container"]
    /\ UNCHANGED <<rxvars, dbvars, sess, main>>

HarvestWaitContainer ==
    /\ hv.pc = "container"
    /\ \E answer \in StepOutcomes : hv' = AfterContainer(hv, answer)
    /\ UNCHANGED <<rxvars, dbvars, sess, main>>

HarvestListItems ==
    /\ hv.pc = "list"
    /\ \/ \E listing \in PageListings : hv' = OnListing(hv, listing)
       \/ hv' = Return(hv, "error")
    /\ UNCHANGED <<rxvars, dbvars, sess, main>>

HarvestParseItems ==
    /\ hv.pc = "parse"
    /\ hv' = AfterGather(hv)
    /\ UNCHANGED <<rxvars, dbvars, sess, main>>

HarvestCheckNext ==
    /\ hv.pc = "next"
    /\ \/ \E visible \in BOOLEAN : hv' = OnVisible(hv, visible)
       \/ hv' = Return(hv, "error")
    /\ UNCHANGED <<rxvars, dbvars, sess, main>>

HarvestOverlayClick ==
    /\ hv.pc = "overlay"
    /\ \/ hv' = AfterOverlayClick(hv)
       \/ hv' = Return(hv, "error")
    /\ UNCHANGED <<rxvars, dbvars, sess, main>>

HarvestNextClick ==
    /\ hv.pc = "click"
    /\ \/ hv' = AfterNextClick(hv)
       \/ hv' = Return(hv, "error")
    /\ UNCHANGED <<rxvars, dbvars, sess, main>>

InitHarvest ==
    /\ StoreInit
    /\ initialized = TRUE
    /\ rx = NotInvoked
    /\ invocations = <<>>
    /\ HarvestIdle
    /\ NoSessions

NextHarvest ==
    \/ HarvestEnter \/ Attempt \/ Sleep \/ HarvestTabReturned \/ HarvestWaitContainer
    \/ HarvestListItems \/ HarvestParseItems \/ HarvestCheckNext
    \/ HarvestOverlayClick \/ HarvestNextClick

SpecHarvest == InitHarvest /\ [][NextHarvest]_vars

\* the event loop resumes a coroutine whose await has completed, and every
\* await of the collaborator completes (with an answer or a failure)
SpecHarvestFair == SpecHarvest /\ WF_vars(NextHarvest)

(***************************************************************************)
(* SpecNavigate: at most MaxInvocations calls of navigate_to_page on one   *)
(* scraper. The wrapped action navigate is modelled by its two requests,   *)
(* the page load and the wait for the title, each of which the             *)
(* collaborator answers, times out or fails.                               *)
(***************************************************************************)
\* navigate as it would be if the page were loaded outside the retried action
navigate_waiting_only(load, wait) ==
    [outcome |-> IF wait = "ok" THEN "result" ELSE wait, steps |-> <<"wait">>]

\* async def navigate(): page.goto, then page.wait_for_selector(title), return True
navigate(load, wait) ==
    IF load # "ok" THEN [outcome |-> load, steps |-> <<"goto">>]
    ELSE [outcome |-> IF wait = "ok" THEN "result" ELSE wait,
          steps |-> <<"goto", "wait">>]

\* navigate_to_page enters _execute_with_retries, which opens the session if needed
NavInvoke ==
    /\ rx.pc \in {"idle", "returned", "raised"}
    /\ Len(invocations) < MaxInvocations
    /\ \E opened \in BOOLEAN :
          IF initialized \/ opened
          THEN initialized' = TRUE /\ rx' = LoopHead(NotInvoked)
          ELSE initialized' = FALSE /\ rx' = [NotInvoked EXCEPT !.pc = "raised"]
    /\ invocations' = Append(invocations, "Navigate to page")
    /\ UNCHANGED <<dbvars, hv, sess, main>>

\* return await action() with action = navigate
NavAttempt ==
    /\ rx.pc = "attempt"
    /\ \E load \in StepOutcomes, wait \in StepOutcomes :
          LET n == navigate(load, wait)
          IN  rx' = [TryAction(rx, n.outcome) EXCEPT !.steps = rx.steps \o n.steps]
    /\ UNCHANGED <<initialized, invocations, dbvars, hv, sess, main>>

InitNavigate == InitRetry

NextNavigate == NavInvoke \/ NavAttempt \/ Sleep

SpecNavigate == InitNavigate /\ [][NextNavigate]_vars

(***************************************************************************)
(* SpecParse: the extraction of one review item whose rating icon carries  *)
(* any class string of at most MaxClassLen tokens, or no class attribute   *)
(* (the empty string), as the one item of the first page of a harvest.     *)
(***************************************************************************)
\* the tokens a class string is made of: the prefix the pattern looks for,
\* digits, a separator and another class name
ClassTokens == {"rating-", "0", "1", "7", " "}

ClassStrings == UNION {[1..n -> ClassTokens] : n \in 0..MaxClassLen}

\* the review items whose rating icon carries each class string
RatedItems == {[ItemA EXCEPT !.rating_class = cls] : cls \in ClassStrings}

InitParse ==
    /\ StoreInit
    /\ initialized = TRUE
    /\ rx = NotInvoked
    /\ invocations = <<>>
    /\ NoSessions
    /\ \E item \in RatedItems :
          hv = [NotHarvesting EXCEPT !.pc = "parse", !.items = <<item>>,
                                     !.served = <<<<item>>>>]

NextParse == HarvestParseItems

SpecParse == InitParse /\ [][NextParse]_vars

(***************************************************************************)
(* SpecDB: any sequence of at most MaxCalls calls to the Reconciler on one *)
(* store handle, starting from the empty tables create_tables leaves.      *)
(***************************************************************************)
InitDB == StoreInit /\ RetryIdle /\ HarvestIdle /\ NoSessions

CallUpsertProduct ==
    /\ ncalls < MaxCalls
    /\ \E url \in Urls, info \in ProductInfos :
          LET r == upsert_product(products, info, url, ncalls + 1)
          IN  /\ products' = r.products
              /\ last' = [op |-> "upsert_product", url |-> url, info |-> info,
                          product_id |-> None, ret |-> r.ret, raised |-> FALSE]
    /\ ncalls' = ncalls + 1
    /\ UNCHANGED <<reviews, rxvars, hv, sess, main>>

CallUpsertReview ==
    /\ ncalls < MaxCalls
    /\ \E info \in ReviewInfos, pid \in ProductIds :
          LET r == upsert_review(reviews, products, info, pid, TRUE)
          IN  /\ reviews' = r.reviews
              /\ last' = [op |-> "upsert_review", url |-> "", info |-> info,
                          product_id |-> pid, ret |-> None, raised |-> r.raised]
    /\ ncalls' = ncalls + 1
    /\ UNCHANGED <<products, rxvars, hv, sess, main>>

NextDB == CallUpsertProduct \/ CallUpsertReview

SpecDB == InitDB /\ [][NextDB]_vars

(***************************************************************************)
(* SpecExtract: product extraction applied to every page of ProductPages.  *)
(* The one session of this specification keeps the page it was given and   *)
(* the record the extractor returned.                                      *)
(***************************************************************************)
Sessions == {"s1", "s2"}

\* nav is what navigate_to_page gave ("" before it ends) and navend how the
\* attempts of its navigate action ended; harvested is the list get_reviews
\* returned, accepted[i] whether the store executed the i-th upsert_review of the
\* list, invoked the upsert_review calls made, rejected the constraints the
\* session's inserts broke, cancelled whether the task was cancelled
NewSession(url) == [url |-> url, pc |-> "start", nav |-> "", navend |-> "",
                    page |-> <<>>, product_info |-> <<>>,
                    product_id |-> None, calls |-> {}, wrote |-> FALSE, closes |-> 0,
                    harvested |-> <<>>, accepted |-> <<>>, invoked |-> 0,
                    rejected |-> {}, cancelled |-> FALSE]

InitExtract ==
    /\ StoreInit /\ RetryIdle /\ HarvestIdle
    /\ \E pg \in ProductPages :
          sess = [s \in {"s1"} |-> [NewSession("u1") EXCEPT !.pc = "extract", !.page = pg]]
    /\ main = "idle"

Extract ==
    /\ sess["s1"].pc = "extract"
    /\ sess' = [sess EXCEPT !["s1"].product_info = extract_product_info(sess["s1"].page),
                            !["s1"].pc = "extracted",
                            !["s1"].calls = @ \cup {"get_product_info"}]
    /\ UNCHANGED <<dbvars, rxvars, hv, main>>

NextExtract == Extract

SpecExtract == InitExtract /\ [][NextExtract]_vars

(***************************************************************************)
(* The scraper as main.py drives it. WebScraper is imported by main.py     *)
(* from web_scraper.scraper; its methods are taken to be the facade over    *)
(* the controller and the parser that the file defines.                    *)
(***************************************************************************)
\* _execute_with_retries run to its end over the outcomes outs of its attempts
RECURSIVE RunRetries(_, _)
RunRetries(st, outs) ==
    IF st.pc = "attempt" /\ outs # <<>> THEN RunRetries(TryAction(st, Head(outs)), Tail(outs))
    ELSE IF st.pc = "sleeping" THEN RunRetries(AfterSleep(st), outs)
    ELSE st

\* the outcomes the collaborator may give the attempts of one invocation
AttemptRuns == [1..(RETRY_COUNT + 1) -> Outcomes]

\* how the attempts of an invocation that runs over outs end: the action's result,
\* a non-timeout failure, or timeouts until the attempts are used up
RECURSIVE RunEnd(_, _)
RunEnd(outs, left) ==
    IF left = 0 \/ outs = <<>> THEN "exhausted"
    ELSE IF Head(outs) = "timeout" THEN RunEnd(Tail(outs), left - 1)
    ELSE Head(outs)

\* navigate_to_page() as it would be if it reported success whatever the executor gave
navigate_to_page_unchecked(opened, outs) == IF ~ opened THEN "raised" ELSE "True"

\* navigate_to_page(): True when the wrapped navigate returned True, else False;
\* a session that fails to open leaves it as an exception
navigate_to_page(opened, outs) ==
    IF ~ opened THEN "raised"
    ELSE IF RunRetries(LoopHead(NotInvoked), outs).result = "result" THEN "True"
    ELSE "False"

\* WebScraper.get_product_info(): the parser applied to the session's page
get_product_info(page) == extract_product_info(page)

\* WebScraper.get_reviews(): the lists extract_reviews returns
HarvestResults == {Survivors(listing) : listing \in PageListings}

FullPage == [vals |-> [title |-> "t1", brand |-> "b1", price |-> "p1", ratings |-> "r1",
                       reviews_count |-> <<"(", "3", ")">>, description |-> "d1"],
             fails |-> {}]

\* the pages the targets of the orchestration render
TargetPages == {FullPage,
                [FullPage EXCEPT !.fails = {"title"}],
                [FullPage EXCEPT !.vals.title = ""],
                [FullPage EXCEPT !.fails = {"brand"}],
                [vals |-> [FullPage.vals EXCEPT !.price = "p2", !.ratings = NoAttribute],
                 fails |-> {"description"}]}

\* the loop as it would be if a failing write left upsert_review as an exception
RECURSIVE StoreReviewsAborting(_, _, _, _, _)
StoreReviewsAborting(revs, prods, list, product_id, accepts) ==
    IF list = <<>>
    THEN [reviews |-> revs, invoked |-> 0, rejected |-> {}, raised |-> FALSE]
    ELSE IF product_id # None /\ ~ Head(accepts)
    THEN [reviews |-> revs, invoked |-> 1, rejected |-> {}, raised |-> TRUE]
    ELSE LET r == upsert_review(revs, prods, Head(list), product_id, Head(accepts))
             rest == StoreReviewsAborting(r.reviews, prods, Tail(list), product_id,
                                          Tail(accepts))
         IN  [reviews |-> rest.reviews, invoked |-> 1 + rest.invoked,
              rejected |-> r.rejected \cup rest.rejected, raised |-> rest.raised]

\* for review in reviews: db.upsert_review(review, product_id), where accepts[i]
\* tells whether the store executes the statements of the i-th call: the table
\* after the loop, the calls made, the constraints broken, and whether an
\* exception left the loop
RECURSIVE StoreReviews(_, _, _, _, _)
StoreReviews(revs, prods, list, product_id, accepts) ==
    IF list = <<>>
    THEN [reviews |-> revs, invoked |-> 0, rejected |-> {}, raised |-> FALSE]
    ELSE LET r == upsert_review(revs, prods, Head(list), product_id, Head(accepts))
             rest == StoreReviews(r.reviews, prods, Tail(list), product_id, Tail(accepts))
         IN  IF r.raised
             THEN [reviews |-> r.reviews, invoked |-> 1, rejected |-> r.rejected,
                   raised |-> TRUE]
             ELSE [reviews |-> rest.reviews, invoked |-> 1 + rest.invoked,
                   rejected |-> r.rejected \cup rest.rejected, raised |-> rest.raised]

(***************************************************************************)
(* Spec: main() gathers one scrape_page session per target over one shared *)
(* Database. The sessions are coroutines of one event loop: a step runs a  *)
(* session from one await to the next, and the calls of the Database,      *)
(* which do not await, run inside the step that reaches them.              *)
(***************************************************************************)
Init ==
    /\ StoreInit /\ RetryIdle /\ HarvestIdle
    /\ \E urls \in [Sessions -> Urls] : sess = [s \in Sessions |-> NewSession(urls[s])]
    /\ main = "gathering"

\* where scrape_page goes as it would be if a failed navigation returned at once
AfterNavigateReturning(ready) == IF ready = "True" THEN "extract" ELSE "done"

\* where scrape_page goes with the result of navigate_to_page: into the body of
\* the if, or, on False or an exception, to the finally block
AfterNavigate(ready) == IF ready = "True" THEN "extract" ELSE "finally"

\* if await scraper.navigate_to_page()
Navigate(s) ==
    /\ sess[s].pc = "start"
    /\ \E opened \in BOOLEAN, outs \in AttemptRuns :
          LET ready == navigate_to_page(opened, outs)
          IN  sess' = [sess EXCEPT
                          ![s].pc = AfterNavigate(ready),
                          ![s].nav = ready,
                          ![s].navend = IF opened THEN RunEnd(outs, RETRY_COUNT)
                                        ELSE "unopened",
                          ![s].calls = @ \cup {"navigate_to_page"}]
    /\ UNCHANGED <<dbvars, rxvars, hv, main>>

\* product_info = await scraper.get_product_info(), the test of its title, and on
\* success upsert_product and the entry into get_reviews
GetProductInfo(s) ==
    /\ sess[s].pc = "extract"
    /\ \E pg \in TargetPages :
          LET info == get_product_info(pg)
              r == upsert_product(products, info, sess[s].url, ncalls + 1)
          IN  IF HasTitle(info)
              THEN /\ products' = r.products
                   /\ ncalls' = ncalls + 1
                   /\ last' = [op |-> "upsert_product", url |-> sess[s].url, info |-> info,
                               product_id |-> None, ret |-> r.ret, raised |-> FALSE]
                   /\ sess' = [sess EXCEPT
                          ![s].pc = "harvest", ![s].page = pg, ![s].product_info = info,
                          ![s].product_id = r.ret,
                          ![s].wrote = @ \/ r.products # products,
                          ![s].rejected = @ \cup r.rejected,
                          ![s].calls = @ \cup {"get_product_info", "upsert_product",
                                               "get_reviews"}]
              ELSE /\ sess' = [sess EXCEPT
                          ![s].pc = "finally", ![s].page = pg, ![s].product_info = info,
                          ![s].calls = @ \cup {"get_product_info"}]
                   /\ UNCHANGED <<products, ncalls, last>>
    /\ UNCHANGED <<reviews, rxvars, hv, main>>

\* reviews = await scraper.get_reviews() returns, and the loop over upsert_review;
\* an exception leaving the loop is caught by scrape_page
GetReviews(s) ==
    /\ sess[s].pc = "harvest"
    /\ \E list \in HarvestResults :
       \E accepts \in [1..Len(list) -> BOOLEAN] :
          LET r == StoreReviews(reviews, products, list, sess[s].product_id, accepts)
          IN  /\ reviews' = r.reviews
              /\ ncalls' = ncalls + r.invoked
              /\ last' = IF list = <<>> THEN last
                         ELSE [op |-> "upsert_review", url |-> "", info |-> list[r.invoked],
                               product_id |-> sess[s].product_id, ret |-> None,
                               raised |-> r.raised]
              /\ sess' = [sess EXCEPT
                     ![s].pc = "finally",
                     ![s].harvested = list, ![s].accepted = accepts,
                     ![s].invoked = r.invoked,
                     ![s].wrote = @ \/ r.reviews # reviews,
                     ![s].rejected = @ \cup r.rejected,
                     ![s].calls = IF list = <<>> THEN @ ELSE @ \cup {"upsert_review"}]
    /\ UNCHANGED <<products, rxvars, hv, main>>

\* a task that has ended: returned, left by an exception, or cancelled
Ended == {"done", "crashed", "cancelled"}

\* finally: await scraper.close(), whose failure leaves scrape_page; a cancelled
\* task ends cancelled once the finally block is through
Close(s) ==
    /\ sess[s].pc = "finally"
    /\ \E closed \in BOOLEAN :
          sess' = [sess EXCEPT ![s].pc = IF ~ closed THEN "crashed"
                                         ELSE IF sess[s].cancelled THEN "cancelled"
                                         ELSE "done",
                               ![s].closes = @ + 1,
                               ![s].calls = @ \cup {"close"}]
    /\ UNCHANGED <<dbvars, rxvars, hv, main>>

\* await asyncio.gather(*tasks) returns when every task has returned; db.close()
MainClose ==
    /\ main = "gathering"
    /\ \A s \in Sessions : sess[s].pc = "done"
    /\ main' = "closed"
    /\ UNCHANGED <<dbvars, rxvars, hv, sess>>

\* asyncio.gather without return_exceptions hands the first exception of a task
\* to main(), which it leaves before db.close(); asyncio.run then cancels the
\* tasks still pending: CancelledError is raised at the await a task is
\* suspended in, passes except Exception, and the finally block runs
Cancel(c) ==
    IF c.pc \in Ended THEN c
    ELSE IF c.pc = "finally"
    THEN [c EXCEPT !.pc = "cancelled", !.cancelled = TRUE, !.closes = @ + 1,
                   !.calls = @ \cup {"close"}]
    ELSE [c EXCEPT !.pc = "finally", !.cancelled = TRUE]

MainRaise ==
    /\ main = "gathering"
    /\ \E s \in Sessions : sess[s].pc = "crashed"
    /\ main' = "raised"
    /\ sess' = [s \in Sessions |-> Cancel(sess[s])]
    /\ UNCHANGED <<dbvars, rxvars, hv>>

Next ==
    \/ \E s \in Sessions : Navigate(s) \/ GetProductInfo(s) \/ GetReviews(s) \/ Close(s)
    \/ MainClose
    \/ MainRaise

Spec == Init /\ [][Next]_vars

\* every step that can be taken is taken in the end: the event loop runs each
\* ready task, and each await of a collaborator returns or raises
SpecFair == Spec /\ WF_vars(Next)

(***************************************************************************)
(* Claims about the Persistence Reconciler, checked under SpecDB.          *)
(***************************************************************************)
\* a step of SpecDB that is a call of op
Called(op) == ncalls' = ncalls + 1 /\ last'.op = op

\* the call recorded in c carries the volatile fields price, ratings, reviews_count
PassesVolatile(c) == UpdateKeys \subseteq DOMAIN c.info

\* C1: two successive upsert_product calls with the same url return the same
\* non-absent id, leave exactly one product row for that url, and that row's
\* price, ratings and reviews_count are the values passed to the second call.
C1_IdempotentProductUpsert ==
    [][(/\ last.op = "upsert_product" /\ Called("upsert_product")
        /\ last'.url = last.url
        /\ PassesVolatile(last) /\ PassesVolatile(last'))
       => /\ last'.ret # None
          /\ last'.ret = last.ret
          /\ Cardinality({p \in products' : p.url = last'.url}) = 1
          /\ \A p \in products' : p.url = last'.url =>
                /\ p.id = last'.ret
                /\ p.price = last'.info["price"]
                /\ p.ratings = last'.info["ratings"]
                /\ p.reviews_count = last'.info["reviews_count"]]_vars

\* C1 restricted to records that carry every key upsert_product reads: it holds there
IdempotentOnFullRecords ==
    [][(/\ last.op = "upsert_product" /\ Called("upsert_product")
        /\ last'.url = last.url
        /\ InsertKeys \subseteq DOMAIN last.info /\ InsertKeys \subseteq DOMAIN last'.info)
       => /\ last'.ret # None
          /\ last'.ret = last.ret
          /\ Cardinality({p \in products' : p.url = last'.url}) = 1
          /\ \A p \in products' : p.url = last'.url =>
                /\ p.id = last'.ret
                /\ p.price = last'.info["price"]
                /\ p.ratings = last'.info["ratings"]
                /\ p.reviews_count = last'.info["reviews_count"]]_vars

SameReviewKey(r, info, pid) ==
    /\ ReviewLookupKeys \subseteq DOMAIN info
    /\ r.product_id = pid
    /\ r.reviewer_name = info["reviewer_name"]
    /\ r.date_of_review = info["date_of_review"]

OneRowPerReviewKey(revs) ==
    \A r1, r2 \in revs :
        (/\ r1.product_id = r2.product_id
         /\ r1.reviewer_name = r2.reviewer_name
         /\ r1.date_of_review = r2.date_of_review) => r1 = r2

\* C2: after any sequence of upsert_review calls the store holds at most one
\* review row per (product_id, reviewer_name, date_of_review), and a call whose
\* key is already stored leaves every stored row unchanged, whatever its rating,
\* title or body.
C2_ReviewWriteOnce ==
    [][/\ OneRowPerReviewKey(reviews')
       /\ (/\ Called("upsert_review")
           /\ \E r \in reviews : SameReviewKey(r, last'.info, last'.product_id))
          => (reviews' = reviews /\ products' = products)]_vars

\* C2 witness: the last call offered a stored key with a different title
C2_Witness ==
    /\ last.op = "upsert_review"
    /\ \E r \in reviews : /\ SameReviewKey(r, last.info, last.product_id)
                           /\ "review_title" \in DOMAIN last.info
                           /\ r.review_title # last.info["review_title"]

\* C3: upsert_review with an absent product_id leaves both tables unchanged and
\* returns without raising, for every review record, also one that lacks fields.
C3_NullProductIdGuard ==
    [][(Called("upsert_review") /\ last'.product_id = None)
       => /\ products' = products
          /\ reviews' = reviews
          /\ last'.raised = FALSE]_vars

\* C3 witness: calls with an absent product_id were made on a store that holds a
\* product, the last one with a full record
C3_Witness ==
    /\ last.op = "upsert_review"
    /\ last.product_id = None
    /\ last.info \in FullReviewInfos
    /\ products # {}

(***************************************************************************)
(* Claims about the Retry Executor, checked under SpecRetry.               *)
(***************************************************************************)
AllTimeouts(outs) == outs # <<>> /\ \A i \in 1..Len(outs) : outs[i] = "timeout"

\* C4: when the action times out on every attempt, it is invoked exactly
\* RETRY_COUNT times and the executor then returns an absent result.
C4_RetryExhaustion ==
    /\ AllTimeouts(rx.outs) => rx.calls <= RETRY_COUNT
    /\ (rx.pc = "returned" /\ AllTimeouts(rx.outs))
          => (rx.calls = RETRY_COUNT /\ rx.result = "None")

\* C4 witness: an invocation has returned after nothing but timeouts
C4_Witness == rx.pc = "returned" /\ AllTimeouts(rx.outs)

\* C5: once an attempt fails with a non-timeout failure the action is not
\* invoked again and no retry delay is waited: the executor has returned an
\* absent result, whatever the number of earlier timeouts.
C5_FailFast ==
    (rx.outs # <<>> /\ rx.outs[Len(rx.outs)] = "error")
        => /\ rx.pc = "returned"
           /\ rx.result = "None"
           /\ rx.calls = Len(rx.outs)
           /\ rx.sleeps = Len(rx.outs) - 1

\* C5 witness: a non-timeout failure after two timeouts
C5_Witness == rx.outs = <<"timeout", "timeout", "error">>

\* C6: the Retry Executor never raises past its boundary, also when the lazy
\* initialisation of the session fails.
C6_NeverRaises == rx.pc # "raised"

(***************************************************************************)
(* Claims about the Pagination Harvest Controller.                         *)
(***************************************************************************)
RECURSIVE Accumulated(_, _)
\* the survivors of the first n listings served, in page order
Accumulated(served, n) ==
    IF n = 0 THEN <<>> ELSE Accumulated(served, n - 1) \o Survivors(served[n])

HarvestEnded == hv.pc = "returned"

\* C7: the harvest loop has a safety ceiling: the call eventually stops and
\* returns, also when every page lists an item and shows the next control.
C7_HarvestTerminates == <>HarvestEnded

\* C8: when page n lists zero review items the loop stops without clicking a
\* pagination control, and extract_reviews returns exactly the reviews
\* accumulated from pages 1..n-1.
C8_EmptyPageEndsHarvest ==
    (hv.served # <<>> /\ hv.served[Len(hv.served)] = <<>>)
        => /\ hv.pc = "returned"
           /\ hv.end = "empty"
           /\ Len(hv.served) = hv.current_page
           /\ hv.clicks = hv.current_page - 1
           /\ hv.result = Accumulated(hv.served, hv.current_page - 1)

\* C8 witness: page 2 listed nothing after page 1 gave reviews
C8_Witness ==
    /\ hv.end = "empty"
    /\ hv.current_page = 2
    /\ Len(hv.result) = 2

(***************************************************************************)
(* Claims about the Field Extractor and the orchestration.                 *)
(***************************************************************************)
SecondaryFields == FieldNames \ {"title"}

\* C9: each field is read independently: when the read of one secondary field
\* fails and title is readable, the returned record has title, lacks only the
\* failed field, and holds every other secondary field.
C9_IndependentFieldReads ==
    \A f \in SecondaryFields :
        (sess["s1"].pc = "extracted" /\ sess["s1"].page.fails = {f})
            => /\ "title" \in DOMAIN sess["s1"].product_info
               /\ FieldNames \cap DOMAIN sess["s1"].product_info = FieldNames \ {f}

\* a session whose title read raised
TitleUnreadable(c) == c.page # <<>> /\ "title" \in c.page.fails

\* C10: when the title cannot be read, product extraction returns a record
\* without a title and does not raise, and the orchestration calls neither
\* upsert_product nor the review harvest nor upsert_review for that target,
\* which leaves the store as it was.
C10_NoTitleNoPersistence ==
    \A s \in DOMAIN sess :
        TitleUnreadable(sess[s])
            => /\ "title" \notin DOMAIN sess[s].product_info
               /\ sess[s].pc \in {"finally"} \cup Ended
               /\ sess[s].calls \cap {"upsert_product", "get_reviews", "upsert_review"} = {}
               /\ ~ sess[s].wrote
               /\ sess[s].product_id = None

\* C10 witness: a session has finished a target whose title could not be read
\* while the other session stored its product
C10_Witness ==
    \E s, t \in DOMAIN sess :
        /\ TitleUnreadable(sess[s]) /\ sess[s].pc = "done"
        /\ sess[t].wrote /\ sess[t].url = sess[s].url

\* C11: navigate_to_page returns false when the retries of the navigation action
\* are exhausted or the action fails non-transiently, and for a target whose
\* navigation returned false the orchestration performs no product extraction,
\* no review harvest and no store write.
C11_NavigationFailureAborts ==
    \A s \in DOMAIN sess :
        /\ sess[s].navend \in {"exhausted", "error"} => sess[s].nav = "False"
        /\ sess[s].nav = "False"
              => /\ sess[s].calls \subseteq {"navigate_to_page", "close"}
                 /\ ~ sess[s].wrote
                 /\ sess[s].product_info = <<>>
                 /\ sess[s].product_id = None

\* C11 witness: one target was given up after its retries were exhausted while
\* the other target was stored
C11_Witness ==
    \E s, t \in DOMAIN sess :
        /\ sess[s].navend = "exhausted" /\ sess[s].pc = "done"
        /\ sess[t].wrote

\* the review record info is stored as a row of product pid
StoredUnder(info, pid) ==
    \E r \in reviews : /\ r.product_id = pid
                       /\ r.reviewer_name = info["reviewer_name"]
                       /\ r.date_of_review = info["date_of_review"]

\* a session whose navigation succeeded and whose record has its title but
\* lacks a secondary field
PartialWithTitle(c) ==
    /\ c.nav = "True" /\ c.product_info # <<>>
    /\ HasTitle(c.product_info)
    /\ ~ (FieldNames \subseteq DOMAIN c.product_info)

\* C12: a target is aborted only on navigation failure or a missing title: when
\* navigation succeeds and the title is read but a secondary field is absent from
\* the partial record, the scrape proceeds, upsert_product persists the product
\* row and returns an id, and the harvested reviews are stored under that id.
C12_PartialRecordPersisted ==
    \A s \in DOMAIN sess :
        PartialWithTitle(sess[s])
            => /\ "get_reviews" \in sess[s].calls
               /\ sess[s].product_id # None
               /\ \E p \in products : p.id = sess[s].product_id /\ p.url = sess[s].url
               /\ \A i \in 1..Len(sess[s].harvested) :
                      sess[s].accepted[i]
                          => StoredUnder(sess[s].harvested[i], sess[s].product_id)

\* the columns of a product row that an update leaves alone
SameIdentity(p, q) ==
    /\ q.id = p.id /\ q.url = p.url /\ q.title = p.title
    /\ q.brand = p.brand /\ q.description = p.description

\* C13: once a product row is inserted, no later upsert_product or upsert_review
\* call changes its id, url, title, brand or description; an upsert_product on
\* an existing url changes only price, ratings, reviews_count and scraped_at of
\* that row and changes no other row.
C13_ProductIdentityImmutable ==
    [][/\ \A p \in products : \E q \in products' : SameIdentity(p, q)
       /\ Called("upsert_review") => products' = products
       /\ (Called("upsert_product") /\ \E p \in products : p.url = last'.url)
            => /\ Cardinality(products') = Cardinality(products)
               /\ \A p \in products : p.url # last'.url => p \in products']_vars

\* C13 witness: the last call updated the volatile fields of a stored url from a
\* record with another title, while a row of another url is stored
C13_Witness ==
    /\ last.op = "upsert_product" /\ last.ret # None
    /\ \E p, o \in products :
          /\ p.url = last.url /\ o.url # last.url
          /\ p.id = last.ret /\ p.scraped_at = ncalls /\ p.scraped_at > p.id
          /\ p.title # last.info["title"]
          /\ p.price = last.info["price"]

\* C14: in every reachable store state every review row's product_id is the id
\* of an existing product row: a review offered with an absent or unknown
\* product id is dropped and never stored.
C14_ReviewsReferenceProducts ==
    \A r \in reviews : \E p \in products : p.id = r.product_id

\* C14 witness: a full review record was last offered under an id that no
\* product row carries, on a store that holds a product and a review of it
C14_Witness ==
    /\ last.op = "upsert_review"
    /\ ReviewInsertKeys \subseteq DOMAIN last.info
    /\ last.product_id # None
    /\ \A p \in products : p.id # last.product_id
    /\ products # {} /\ reviews # {}

\* C15: under every interleaving of the concurrent scrape_page sessions that
\* share one Database, two sessions scraping the same url included, the lookup
\* and the insert of an upsert behave as one step per key: no insert is
\* attempted for a url or a review key that is already stored, so no two product
\* rows share a url and no two review rows share (product_id, reviewer_name,
\* date_of_review).
C15_LookupThenInsertAtomic ==
    /\ \A s \in DOMAIN sess : sess[s].rejected \cap {"products.url", "reviews.key"} = {}
    /\ \A p, q \in products : p.url = q.url => p = q
    /\ \A r, q \in reviews :
          (/\ r.product_id = q.product_id /\ r.reviewer_name = q.reviewer_name
           /\ r.date_of_review = q.date_of_review) => r = q

\* C15 witness: two sessions scraped the same url, both were given the id of its
\* one row, and both offered the same review, which the store executed
C15_Witness ==
    \E s, t \in DOMAIN sess :
        /\ s # t /\ sess[s].url = sess[t].url
        /\ sess[s].product_id # None /\ sess[s].product_id = sess[t].product_id
        /\ sess[s].invoked >= 1 /\ sess[t].invoked >= 1
        /\ sess[s].accepted[1] /\ sess[t].accepted[1]
        /\ sess[s].harvested[1] = sess[t].harvested[1]
        /\ StoredUnder(sess[s].harvested[1], sess[s].product_id)

\* two upsert_product calls allocated the same id: the store holds two rows of
\* one id, or it refused an insert on the primary key of products
IdCollision ==
    \/ \E p, q \in products : p.id = q.id /\ p # q
    \/ \E s \in DOMAIN sess : "products.id" \in sess[s].rejected

\* two sessions running side by side have both called upsert_product with a
\* full record, each for a url new to the store
BothInserted ==
    \E s, t \in DOMAIN sess :
        /\ sess[s].url # sess[t].url
        /\ \A c \in {sess[s], sess[t]} :
              /\ "upsert_product" \in c.calls /\ c.closes = 0
              /\ FieldNames \subseteq DOMAIN c.product_info

C17_FailureContained ==
    /\ main # "raised"
    /\ \A s \in DOMAIN sess : ~ sess[s].cancelled /\ sess[s].pc # "cancelled"

LoopSites == {"list", "next", "overlay", "click"}

\* C19: extract_reviews never raises: when a collaborator call inside the harvest
\* loop fails on page n (listing items, visibility check, overlay click or
\* pagination click), harvesting stops and the call returns every review
\* accumulated up to that point.
C19_LoopFailureReturnsAccumulated ==
    [][(hv.pc \in LoopSites /\ hv'.end = "error")
          => /\ hv'.pc = "returned"
             /\ hv'.result = hv.reviews_list
             /\ hv'.result = Accumulated(hv.served, Len(hv.served))
             /\ hv'.served = hv.served]_vars

\* C19 witness: the harvest failed on page 2 after the items of both pages were
\* parsed, and returned the four reviews of the two pages
C19_Witness ==
    /\ hv.pc = "returned" /\ hv.end = "error"
    /\ hv.current_page = 2 /\ Len(hv.served) = 2
    /\ Len(hv.result) = 4

\* C20: a write failure inside upsert_review never aborts the persistence of a
\* harvested list: upsert_review is invoked for every review of the list the
\* harvest returned, and a failure on one review leaves the rows of the earlier
\* reviews stored and does not keep the later reviews from being stored.
C20_WriteFailureSkipsOneReview ==
    \A s \in DOMAIN sess :
        /\ sess[s].invoked = Len(sess[s].harvested)
        /\ Len(sess[s].accepted) = Len(sess[s].harvested)
        /\ sess[s].product_id # None
              => \A i \in 1..Len(sess[s].harvested) :
                    sess[s].accepted[i]
                        => StoredUnder(sess[s].harvested[i], sess[s].product_id)

\* C20 witness: of a harvested list of two reviews the store failed the write of
\* the first and executed the write of the second, which is stored
C20_Witness ==
    \E s \in DOMAIN sess :
        /\ sess[s].product_id # None
        /\ Len(sess[s].harvested) = 2 /\ sess[s].invoked = 2
        /\ ~ sess[s].accepted[1] /\ sess[s].accepted[2]
        /\ ~ StoredUnder(sess[s].harvested[1], sess[s].product_id)
        /\ StoredUnder(sess[s].harvested[2], sess[s].product_id)

\* the items of a page whose extraction does not fail, in the order of the page
NonFailing(items) == SelectSeq(items, LAMBDA it : ~ it.fails)

\* C21: on a page with k review items of which a subset fail extraction, exactly
\* the non-failing items are appended to the accumulated result and the harvest
\* continues to the pagination step: one item's failure never discards another
\* item of the same page.
C21_ItemFailureIsLocal ==
    [][(hv.pc = "parse" /\ ~ hv.beyond)
          => /\ hv'.pc = "next"
             /\ Len(hv'.reviews_list) = Len(hv.reviews_list) + Len(NonFailing(hv.items))
             /\ \A i \in 1..Len(NonFailing(hv.items)) :
                    hv'.reviews_list[Len(hv.reviews_list) + i]
                        = parse_review(NonFailing(hv.items)[i])
             /\ \A i \in 1..Len(hv.reviews_list) :
                    hv'.reviews_list[i] = hv.reviews_list[i]]_vars

\* C21 witness: the items of a page of three, the second of which failed, have
\* been parsed on page 2 and the two others were appended to the reviews of page 1
C21_Witness ==
    /\ hv.pc = "next" /\ hv.current_page = 2
    /\ hv.served[2] = <<ItemB, ItemBad, ItemA>>
    /\ Len(hv.served[1]) = 1
    /\ Len(hv.reviews_list) = 3
    /\ hv.reviews_list[2] = parse_review(ItemB)
    /\ hv.reviews_list[3] = parse_review(ItemA)

\* C22: for every class string read from the rating icon, the extracted
\* review's rating is an integer between 0 and 5 inclusive; a class string with
\* no numeric rating suffix, or an absent class attribute, yields rating 0 and
\* no exception.
C22_RatingInRange ==
    \A i \in 1..Len(hv.reviews_list) :
        /\ hv.reviews_list[i].rating \in 0..5
        /\ (\A j \in 1..Len(hv.served[1][i].rating_class) :
                ~ /\ hv.served[1][i].rating_class[j] = "rating-"
                  /\ DigitRun(hv.served[1][i].rating_class, j + 1) # <<>>)
              => hv.reviews_list[i].rating = 0

\* the number of requests req among the steps
RECURSIVE Requests(_, _)
Requests(steps, req) ==
    IF steps = <<>> THEN 0
    ELSE (IF Head(steps) = req THEN 1 ELSE 0) + Requests(Tail(steps), req)

\* C23: page load and landmark wait form one retried action: when the wait for
\* the title times out on an attempt, the next attempt requests the page load
\* again before it waits for the title, so the number of page-load requests
\* equals the number of navigation attempts.
C23_WholeNavigationRetried ==
    /\ Requests(rx.steps, "goto") = rx.calls
    /\ rx.steps # <<>> => rx.steps[1] = "goto"
    /\ \A i \in 2..Len(rx.steps) : rx.steps[i] = "wait" => rx.steps[i - 1] = "goto"
    /\ \A i \in 1..(Len(rx.steps) - 1) : rx.steps[i] = "wait" => rx.steps[i + 1] = "goto"

\* C23 witness: the title wait of the first attempt timed out, the second
\* attempt loaded the page again, and the navigation succeeded at the third
C23_Witness ==
    /\ rx.pc = "returned" /\ rx.result = "result" /\ rx.calls = 3
    /\ rx.outs = <<"timeout", "timeout", "result">>
    /\ rx.steps = <<"goto", "wait", "goto", "wait", "goto", "wait">>

\* C24: in the harvest loop the pagination control for page n+1 is looked up and
\* clicked only after every item extraction of page n has completed and its
\* survivors are appended; the page counter advances by exactly one per click,
\* the overlay-dismissing click precedes the control click, and no item of page
\* n+1 is read before that click.
C24_PaginationAfterPage ==
    [][(~ hv.beyond /\ ~ hv'.beyond)
          => /\ hv.pc \in {"next", "overlay", "click"}
                  => /\ hv.items = <<>>
                     /\ Len(hv.served) = hv.current_page
                     /\ hv.reviews_list = Accumulated(hv.served, hv.current_page)
             /\ (hv.pc = "click" /\ hv'.pc = "list")
                  => /\ hv'.current_page = hv.current_page + 1
                     /\ hv'.clicks = hv.clicks + 1
                     /\ hv.overlays = hv.clicks + 1
                     /\ hv'.overlays = hv'.clicks
                     /\ hv'.served = hv.served
             /\ hv'.current_page # hv.current_page => hv.pc = "click"
             /\ hv'.clicks # hv.clicks => hv.pc = "click"
             /\ hv'.served # hv.served
                  => /\ hv.pc = "list"
                     /\ Len(hv'.served) = hv.clicks + 1
                     /\ Len(hv'.served) = hv.current_page]_vars

\* C24 witness: the control of page 2 has just been clicked, after the two
\* surviving reviews of page 1 were appended and the body was clicked once
C24_Witness ==
    /\ hv.pc = "list" /\ hv.current_page = 2
    /\ hv.clicks = 1 /\ hv.overlays = 1
    /\ Len(hv.served) = 1 /\ Len(hv.served[1]) = 3
    /\ Len(hv.reviews_list) = 2

\* C25: at harvest entry both the reviews-tab activation and the wait for the
\* review container go through the Retry Executor: a timeout of either is
\* retried up to the configured attempt count, and only when they still fail
\* does extract_reviews return zero reviews, without raising.
C25_EntryThroughRetryExecutor ==
    /\ (hv.pc \notin {"idle", "tab"} /\ rx.result = "None" /\ AllTimeouts(rx.outs))
          => rx.calls = RETRY_COUNT
    /\ (hv.pc = "returned" /\ hv.container # <<>>
        /\ \A i \in 1..Len(hv.container) : hv.container[i] = "timeout")
          => /\ Len(hv.container) = RETRY_COUNT
             /\ hv.result = <<>>

\* session s returns from get_reviews and runs its loop over upsert_review
Persists(s) == sess[s].pc = "harvest" /\ sess'[s].pc = "finally" /\ ~ sess'[s].cancelled

\* C26: under every interleaving of concurrent scrape_page sessions, each stored
\* review row carries the id of the product row whose url is the target the
\* review was harvested from: a session persists its reviews only after its own
\* upsert_product returned, and only with the id that call returned, never with
\* an id obtained by another session.
C26_ReviewsUnderOwnProduct ==
    [][/\ \A r \in reviews' \ reviews :
              \E s \in DOMAIN sess :
                  /\ Persists(s)
                  /\ "upsert_product" \in sess[s].calls
                  /\ r.product_id = sess[s].product_id
                  /\ \E i \in 1..Len(sess'[s].harvested) :
                         r.reviewer_name = sess'[s].harvested[i]["reviewer_name"]
                  /\ \E p \in products : p.id = r.product_id /\ p.url = sess[s].url
       /\ \A s \in DOMAIN sess :
              sess'[s].product_id # None
                  => \E p \in products' : p.id = sess'[s].product_id /\ p.url = sess[s].url
       /\ \A s \in DOMAIN sess :
              sess[s].product_id # None => sess'[s].product_id = sess[s].product_id]_vars

\* C26 witness: two sessions of distinct urls ran side by side and each stored
\* the same reviewer's review, one row under each product
C26_Witness ==
    \E s, t \in DOMAIN sess :
        /\ sess[s].url # sess[t].url
        /\ sess[s].product_id # None /\ sess[t].product_id # None
        /\ sess[s].pc = "finally" /\ sess[t].pc = "finally"
        /\ \E n \in ReviewerNames :
              /\ \E r \in reviews : r.product_id = sess[s].product_id /\ r.reviewer_name = n
              /\ \E r \in reviews : r.product_id = sess[t].product_id /\ r.reviewer_name = n
        /\ Cardinality(products) = 2

====
